---- MODULE Spec2Model ----
(***************************************************************************)
(* A model of colony (services.go): the Service actor that owns the        *)
(* messageID -> channel map, the response router, NewMessage/NewResponse    *)
(* and the id counter, and the announce/watch discovery protocol on top of  *)
(* an NSQ-like broker.                                                      *)
(*                                                                          *)
(* Strings are sequences of one-character strings, so that getName,         *)
(* strconv.Itoa and strings.HasSuffix are computed as the code computes     *)
(* them.  Message.Time is left out: no operation reads it.                  *)
(***************************************************************************)
EXTENDS Integers, Sequences, FiniteSets, TLC

VARIABLES
    i,          \* Service.i, per service instance
    handlers,   \* Service.handlers of the requester: messageID -> chan Message
    actor,      \* position and locals of Service.start's loop
    chans,      \* the channels made by start, each with the handler goroutine on it
    cl,         \* the caller goroutines of the requester (NewMessage, Emit, Request)
    router,     \* the go-nsq handler goroutine running Service.HandleMessage
    alive,      \* FALSE once log.Fatal has ended the requester's process
    topics,     \* broker: the topic registry
    topicQ,     \* broker: messages held by a topic that has no channel yet
    chanQ,      \* broker: the queue of every (topic, channel)
    nsqSeq,     \* broker: per topic, the number of messages published on it
                \* so far; it numbers the topic's messages (nsq.Message.ID)
    pubLog,     \* history: the produce calls that reached Publish
    idLog,      \* history: the ids returned by nextID, in order of return
    overlap,    \* history: two nextID calls have been in progress at once
    respLog,    \* history: the NewResponse calls
    dropLog,    \* history: the messages the actor discarded
    nProduce,   \* history: number of produce calls started
    cons,       \* the Consume calls: position of newConsumer, the watcher, and
                \* what the handler has received on the consumer's channel
    subs,       \* the nsq.Consumers feeding a queueConsumer, each with the
                \* message its HandleMessage is sending
    prod,       \* the producers: position in Announce
    emitLog,    \* history: the messages producers have emitted
    named       \* two topics and the names getName has returned for them

vars == <<i, handlers, actor, chans, cl, router, alive, topics, topicQ, chanQ,
          nsqSeq, pubLog, idLog, overlap, respLog, dropLog, nProduce,
          cons, subs, prod, emitLog, named>>

\* The state of the discovery protocol, and that of the request/response
\* exchange.
disc == <<cons, subs, prod, emitLog, named>>
reqs == <<handlers, actor, chans, cl, router, alive, pubLog, idLog, overlap, respLog,
          dropLog, nProduce, named>>

-----------------------------------------------------------------------------
(* Bounds *)

MaxNewMessage == 3
MaxProduce == 2
MaxRespond == 2
MaxAnnounce == 1
MaxEmit == 2
MaxLen == 1

-----------------------------------------------------------------------------
(* Strings *)

Sep == <<"-">>
Digits == <<"0", "1", "2", "3", "4", "5", "6", "7", "8", "9">>

RECURSIVE Itoa(_)
Itoa(n) == IF n < 10 THEN <<Digits[n + 1]>> ELSE Itoa(n \div 10) \o <<Digits[(n % 10) + 1]>>

HasSuffix(s, suffix) ==
    /\ Len(suffix) <= Len(s)
    /\ SubSeq(s, Len(s) - Len(suffix) + 1, Len(s)) = suffix

Last(s) == s[Len(s)]

-----------------------------------------------------------------------------
(* Topics and messages *)

\* The service instances of the colony: (Name, ID).
\* dave is another instance of alice's service; its id holds the separator.
Services == {"alice", "bob", "carol", "dave"}
SvcName(s) ==
    CASE s = "alice" -> <<"a">> [] s = "bob" -> <<"b">> [] s = "dave" -> <<"a">>
      [] OTHER -> <<"c">>
SvcID(s) ==
    CASE s = "alice" -> <<"1">> [] s = "bob" -> <<"2">> [] s = "dave" -> <<"1", "-", "x">>
      [] OTHER -> <<"3">>

Requester == "alice"
Responder == "bob"

\* Content types used by the request/response exchange.
CtRequest == <<"q">>
CtAck == <<"a", "c", "k">>
CtResponses == <<"r", "e", "s", "p", "o", "n", "s", "e", "s">>
Payloads == {<<"x">>}

\* The caller goroutines of the requester, and the handler values passed to
\* produce ("nil" is Emit's).
Goroutines == {"g1", "g2"}
Nil == "nil"
HandlerFns == {"h"}

topic(name, id, ct) == [ServiceName |-> name, ServiceID |-> id, ContentType |-> ct]

\* Mutant: getName joins the components without the separator.
getName_noSep(t) == t.ServiceName \o t.ServiceID \o t.ContentType

getName(t) == t.ServiceName \o Sep \o t.ServiceID \o Sep \o t.ContentType

\* No component of topic t holds the separator.
SeparatorFree(t) ==
    /\ \A j \in 1..Len(t.ServiceName) : t.ServiceName[j] # Sep[1]
    /\ \A j \in 1..Len(t.ServiceID) : t.ServiceID[j] # Sep[1]
    /\ \A j \in 1..Len(t.ContentType) : t.ContentType[j] # Sep[1]

\* The strings of at most MaxLen characters over a letter and the separator,
\* and the topics made of them.
Alphabet == {"a", Sep[1]}
Strings == UNION {[1..n -> Alphabet] : n \in 0..MaxLen}
Topics == {topic(name, id, ct) : name \in Strings, id \in Strings, ct \in Strings}

\* getName is called on two topics.
nameTopics ==
    /\ named = <<>>
    /\ \E t1 \in Topics, t2 \in Topics :
          named' = [a |-> t1, b |-> t2, na |-> getName(t1), nb |-> getName(t2)]
    /\ UNCHANGED <<i, handlers, actor, chans, cl, router, alive, topics, topicQ, chanQ,
                   nsqSeq, pubLog, idLog, overlap, respLog, dropLog, nProduce,
                   cons, subs, prod, emitLog>>

responseTopic(s) == topic(SvcName(s), SvcID(s), CtResponses)

NewMessage(s, contentType, payload, id) ==
    [ Topic         |-> topic(SvcName(s), SvcID(s), contentType),
      FromName      |-> SvcName(s),
      Payload       |-> payload,
      ResponseTopic |-> responseTopic(s),
      MessageID     |-> id,
      ContentType   |-> contentType ]

\* Mutant: the response takes a fresh id from the responder's counter.
NewResponse_freshID(s, m, contentType, payload) ==
    [ Topic         |-> m.ResponseTopic,
      FromName      |-> SvcName(s),
      Payload       |-> payload,
      ResponseTopic |-> responseTopic(s),
      MessageID     |-> Itoa(i[s] + 1),
      ContentType   |-> contentType ]

NewResponse(s, m, contentType, payload) ==
    [ Topic         |-> m.ResponseTopic,
      FromName      |-> SvcName(s),
      Payload       |-> payload,
      ResponseTopic |-> responseTopic(s),
      MessageID     |-> m.MessageID,
      ContentType   |-> contentType ]

\* encoding/json on a Message: the body carries every field and decodes to the
\* same Message.
Marshal(m) == <<"json", m>>
Unmarshal(body) == body[2]

-----------------------------------------------------------------------------
(* The broker (NSQ): a topic copies each message to every channel it has; *)
(* while it has none it holds the message, and its first channel receives *)
(* what it held.                                                          *)

AnnounceTopic == <<"c", "o", "l", "o", "n", "y", "-", "a", "n", "n", "o", "u", "n", "c", "e">>

ChannelsOf(t) == {k \in DOMAIN chanQ : k[1] = t}

WithTopic(tq, t) == IF t \in DOMAIN tq THEN tq ELSE tq @@ (t :> <<>>)

WithCount(n, t) == IF t \in DOMAIN n THEN n ELSE n @@ (t :> 0)

BrokerCreateTopic(t) ==
    /\ topics' = topics \cup {t}
    /\ topicQ' = WithTopic(topicQ, t)
    /\ nsqSeq' = WithCount(nsqSeq, t)
    /\ UNCHANGED chanQ

BrokerPublish(t, body) ==
    LET msg == [ID |-> WithCount(nsqSeq, t)[t] + 1, Body |-> body]
    IN  /\ nsqSeq' = [WithCount(nsqSeq, t) EXCEPT ![t] = @ + 1]
        /\ topics' = topics \cup {t}
        /\ IF ChannelsOf(t) = {}
             THEN /\ topicQ' = [WithTopic(topicQ, t) EXCEPT ![t] = Append(@, msg)]
                  /\ chanQ' = chanQ
             ELSE /\ topicQ' = WithTopic(topicQ, t)
                  /\ chanQ' = [k \in DOMAIN chanQ |->
                                 IF k[1] = t THEN Append(chanQ[k], msg) ELSE chanQ[k]]

BrokerSubscribe(t, ch) ==
    /\ topics' = topics \cup {t}
    /\ nsqSeq' = WithCount(nsqSeq, t)
    /\ IF <<t, ch>> \in DOMAIN chanQ
         THEN /\ chanQ' = chanQ
              /\ topicQ' = WithTopic(topicQ, t)
         ELSE /\ chanQ' = chanQ @@ (<<t, ch>> :> WithTopic(topicQ, t)[t])
              /\ topicQ' = [WithTopic(topicQ, t) EXCEPT ![t] = <<>>]

broker == <<topics, topicQ, chanQ, nsqSeq>>

-----------------------------------------------------------------------------
(* The requester: NewMessage and nextID, run by its caller goroutines *)

RECURSIVE Atoi(_)
Atoi(str) ==
    IF Len(str) = 0 THEN 0
    ELSE 10 * Atoi(SubSeq(str, 1, Len(str) - 1))
         + (CHOOSE d \in 0..9 : Digits[d + 1] = Last(str))

InNextID(g) == cl[g].pc \in {"idWrite", "idReturn"}

\* nextID, first half of `s.i = s.i + 1`: the read of s.i.
nextIDRead(g) ==
    /\ alive
    /\ cl[g].pc \in {"idle", "have"}
    /\ Len(idLog) + Cardinality({x \in Goroutines : InNextID(x)}) < MaxNewMessage
    /\ nProduce < MaxProduce
    /\ cl' = [cl EXCEPT ![g].pc = "idWrite", ![g].tmp = i[Requester],
                        ![g].seen = Len(idLog)]
    /\ overlap' = (overlap \/ \E x \in Goroutines \ {g} : InNextID(x))
    /\ UNCHANGED <<disc, i, handlers, actor, chans, router, alive, broker, pubLog, idLog,
                   respLog, dropLog, nProduce>>

\* Mutant: the counter is written back without the increment.
nextIDWrite_noInc(g) ==
    /\ alive
    /\ cl[g].pc = "idWrite"
    /\ i' = [i EXCEPT ![Requester] = cl[g].tmp]
    /\ cl' = [cl EXCEPT ![g].pc = "idReturn"]
    /\ UNCHANGED <<disc, handlers, actor, chans, router, alive, broker, pubLog, idLog,
                   overlap, respLog, dropLog, nProduce>>

\* nextID, second half of `s.i = s.i + 1`: the write of s.i.
nextIDWrite(g) ==
    /\ alive
    /\ cl[g].pc = "idWrite"
    /\ i' = [i EXCEPT ![Requester] = cl[g].tmp + 1]
    /\ cl' = [cl EXCEPT ![g].pc = "idReturn"]
    /\ UNCHANGED <<disc, handlers, actor, chans, router, alive, broker, pubLog, idLog,
                   overlap, respLog, dropLog, nProduce>>

\* `return messageID(strconv.Itoa(s.i))`, and NewMessage building the Message
\* around it.
nextIDReturn(g) ==
    /\ alive
    /\ cl[g].pc = "idReturn"
    /\ \E p \in Payloads :
         cl' = [cl EXCEPT ![g].pc = "have", ![g].tmp = 0, ![g].seen = 0,
                          ![g].m = NewMessage(Requester, CtRequest, p, Itoa(i[Requester]))]
    /\ idLog' = Append(idLog, [g |-> g, id |-> Itoa(i[Requester]), seen |-> cl[g].seen])
    /\ UNCHANGED <<disc, i, handlers, actor, chans, router, alive, broker, pubLog, overlap,
                   respLog, dropLog, nProduce>>

-----------------------------------------------------------------------------
(* Emit, Request and produce *)

\* Mutant: produce publishes without registering the Handler first.
produceBegin_noRegister(g, h) ==
    /\ alive
    /\ cl[g].pc = "have"
    /\ nProduce < MaxProduce
    /\ nProduce' = nProduce + 1
    /\ cl' = [cl EXCEPT ![g].pc = "publish", ![g].h = h, ![g].rq = nProduce + 1]
    /\ UNCHANGED <<disc, i, handlers, actor, chans, router, alive, broker, pubLog, idLog,
                   overlap, respLog, dropLog>>

\* produce up to `if h != nil`: Emit passes nil, Request a Handler.  With a
\* Handler the goroutine blocks sending on addHandlerChan.
produceBegin(g, h) ==
    /\ alive
    /\ cl[g].pc = "have"
    /\ nProduce < MaxProduce
    /\ nProduce' = nProduce + 1
    /\ cl' = [cl EXCEPT ![g].pc = IF h = Nil THEN "publish" ELSE "addSend",
                        ![g].h = h, ![g].rq = nProduce + 1]
    /\ UNCHANGED <<disc, i, handlers, actor, chans, router, alive, broker, pubLog, idLog,
                   overlap, respLog, dropLog>>

\* The registration of produce call rq has been received by the actor.
Handed(rq) ==
    \/ actor.pc = "add" /\ actor.pair.rq = rq
    \/ \E c \in 1..Len(chans) : chans[c].rq = rq

\* The registration of produce call rq is stored in the handler map.
Stored(rq) ==
    \E c \in 1..Len(chans) :
        /\ chans[c].rq = rq
        /\ chans[c].id \in DOMAIN handlers
        /\ handlers[chans[c].id] = c

\* produce from `topic := m.Topic.getName()` to the end: Marshal and Publish.
producePublish(g) ==
    /\ alive
    /\ cl[g].pc = "publish"
    /\ BrokerPublish(getName(cl[g].m.Topic), Marshal(cl[g].m))
    /\ pubLog' = Append(pubLog, [rq |-> cl[g].rq, m |-> cl[g].m, h |-> cl[g].h])
    /\ cl' = [cl EXCEPT ![g].pc = "have", ![g].h = Nil, ![g].rq = 0]
    /\ UNCHANGED <<disc, i, handlers, actor, chans, router, alive, idLog, overlap, respLog,
                   dropLog, nProduce>>

-----------------------------------------------------------------------------
(* Service.start: the actor loop, and the handler goroutines it starts *)

ActorIdle == [pc |-> "select", pair |-> <<>>, msg |-> <<>>, c |-> 0]

\* `case pair := <-s.addHandlerChan`: the rendezvous with a produce blocked on
\* its send; the sender goes on to publish.
startRecvAdd(g) ==
    /\ alive
    /\ actor.pc = "select"
    /\ cl[g].pc = "addSend"
    /\ actor' = [actor EXCEPT !.pc = "add",
                              !.pair = [h |-> cl[g].h, id |-> cl[g].m.MessageID,
                                        rq |-> cl[g].rq]]
    /\ cl' = [cl EXCEPT ![g].pc = "publish"]
    /\ UNCHANGED <<disc, i, handlers, chans, router, alive, broker, pubLog, idLog, overlap,
                   respLog, dropLog, nProduce>>

\* The body of the add case: make the channel, store it under pair.id, start
\* the goroutine that runs pair.h on it.
startAdd ==
    /\ alive
    /\ actor.pc = "add"
    /\ LET c == Len(chans) + 1
       IN  /\ handlers' = [k \in DOMAIN handlers \cup {actor.pair.id} |->
                             IF k = actor.pair.id THEN c ELSE handlers[k]]
           /\ chans' = Append(chans, [id |-> actor.pair.id, h |-> actor.pair.h,
                                      rq |-> actor.pair.rq, st |-> "running",
                                      got |-> <<>>])
    /\ actor' = ActorIdle
    /\ UNCHANGED <<disc, i, cl, router, alive, broker, pubLog, idLog, overlap, respLog,
                   dropLog, nProduce>>

\* The handler function returns nil; its goroutine blocks sending on
\* removeHandlerChan.
handlerReturn(c) ==
    /\ alive
    /\ chans[c].st = "running"
    /\ chans' = [chans EXCEPT ![c].st = "returned"]
    /\ UNCHANGED <<disc, i, handlers, actor, cl, router, alive, broker, pubLog, idLog,
                   overlap, respLog, dropLog, nProduce>>

\* The handler function returns an error: log.Fatal ends the process, and
\* with it the actor loop, the router, the callers and the handler map.
handlerFatal(c) ==
    /\ alive
    /\ chans[c].st = "running"
    /\ chans' = [chans EXCEPT ![c].st = "failed"]
    /\ alive' = FALSE
    /\ handlers' = <<>>
    /\ actor' = ActorIdle
    /\ router' = [pc |-> "off", msg |-> <<>>]
    /\ cl' = [g \in Goroutines |-> [pc |-> "off", tmp |-> 0, seen |-> 0, m |-> <<>>,
                                    h |-> Nil, rq |-> 0]]
    /\ UNCHANGED <<disc, i, broker, pubLog, idLog, overlap, respLog, dropLog, nProduce>>

\* Mutant: the returned handler's goroutine deletes its id from the map
\* itself instead of handing the pair to the actor.
startRecvRemove_direct(c) ==
    /\ alive
    /\ chans[c].st = "returned"
    /\ handlers' = [k \in DOMAIN handlers \ {chans[c].id} |-> handlers[k]]
    /\ chans' = [chans EXCEPT ![c].st = "done"]
    /\ UNCHANGED <<disc, i, actor, cl, router, alive, broker, pubLog, idLog, overlap,
                   respLog, dropLog, nProduce>>

\* `case pair := <-s.removeHandlerChan`: the rendezvous with a returned handler.
startRecvRemove(c) ==
    /\ alive
    /\ actor.pc = "select"
    /\ chans[c].st = "returned"
    /\ actor' = [actor EXCEPT !.pc = "remove",
                              !.pair = [h |-> chans[c].h, id |-> chans[c].id,
                                        rq |-> chans[c].rq]]
    /\ chans' = [chans EXCEPT ![c].st = "done"]
    /\ UNCHANGED <<disc, i, handlers, cl, router, alive, broker, pubLog, idLog, overlap,
                   respLog, dropLog, nProduce>>

\* `delete(s.handlers, pair.id)`.
startRemove ==
    /\ alive
    /\ actor.pc = "remove"
    /\ handlers' = [k \in DOMAIN handlers \ {actor.pair.id} |-> handlers[k]]
    /\ actor' = ActorIdle
    /\ UNCHANGED <<disc, i, chans, cl, router, alive, broker, pubLog, idLog, overlap,
                   respLog, dropLog, nProduce>>

\* `case msg := <-s.callHandlerChan`: the rendezvous with HandleMessage.
startRecvCall ==
    /\ alive
    /\ actor.pc = "select"
    /\ router.pc = "send"
    /\ actor' = [actor EXCEPT !.pc = "call", !.msg = router.msg]
    /\ router' = [pc |-> "idle", msg |-> <<>>]
    /\ UNCHANGED <<disc, i, handlers, chans, cl, alive, broker, pubLog, idLog, overlap,
                   respLog, dropLog, nProduce>>

\* A handler goroutine for id is running and no other registration was made
\* under id.
LiveAlone(id) ==
    \E c \in 1..Len(chans) :
        /\ chans[c].id = id
        /\ chans[c].st = "running"
        /\ \A d \in 1..Len(chans) : chans[d].id = id => d = c

\* Mutant: the message goes to the channel made last, whatever its id.
startLookup_latest ==
    /\ alive
    /\ actor.pc = "call"
    /\ IF actor.msg.m.MessageID \in DOMAIN handlers
         THEN /\ actor' = [actor EXCEPT !.pc = "send", !.c = Len(chans)]
              /\ dropLog' = dropLog
         ELSE /\ actor' = ActorIdle
              /\ dropLog' = Append(dropLog, [nid |-> actor.msg.nid,
                                             id |-> actor.msg.m.MessageID,
                                             live |-> LiveAlone(actor.msg.m.MessageID)])
    /\ UNCHANGED <<disc, i, handlers, chans, cl, router, alive, broker, pubLog, idLog,
                   overlap, respLog, nProduce>>

\* Mutant: no `ok` check; on a miss the actor sends on the nil channel.
startLookup_noCheck ==
    /\ alive
    /\ actor.pc = "call"
    /\ actor' = [actor EXCEPT !.pc = "send",
                              !.c = IF actor.msg.m.MessageID \in DOMAIN handlers
                                      THEN handlers[actor.msg.m.MessageID] ELSE 0]
    /\ UNCHANGED <<disc, i, handlers, chans, cl, router, alive, broker, pubLog, idLog,
                   overlap, respLog, dropLog, nProduce>>

\* `c, ok := s.handlers[msg.MessageID]; if !ok { continue }`: a hit leaves the
\* actor about to send on c, a miss discards the message.
startLookup ==
    /\ alive
    /\ actor.pc = "call"
    /\ IF actor.msg.m.MessageID \in DOMAIN handlers
         THEN /\ actor' = [actor EXCEPT !.pc = "send",
                                        !.c = handlers[actor.msg.m.MessageID]]
              /\ dropLog' = dropLog
         ELSE /\ actor' = ActorIdle
              /\ dropLog' = Append(dropLog, [nid |-> actor.msg.nid,
                                             id |-> actor.msg.m.MessageID,
                                             live |-> LiveAlone(actor.msg.m.MessageID)])
    /\ UNCHANGED <<disc, i, handlers, chans, cl, router, alive, broker, pubLog, idLog,
                   overlap, respLog, nProduce>>

\* `c <- msg` meeting the handler's receive on c.
handlerRecv(c) ==
    /\ alive
    /\ actor.pc = "send"
    /\ actor.c = c
    /\ chans[c].st = "running"
    /\ chans' = [chans EXCEPT ![c].got = Append(@, actor.msg)]
    /\ actor' = ActorIdle
    /\ UNCHANGED <<disc, i, handlers, cl, router, alive, broker, pubLog, idLog, overlap,
                   respLog, dropLog, nProduce>>

\* The goroutine that runs a handler function, when the function calls into
\* colony.
HandlerGoroutine == "g2"

\* The handler function on channel c stops receiving and starts calling the
\* service (NewMessage, NewResponse, Request, Emit) from its goroutine.
handlerCall(c) ==
    /\ alive
    /\ chans[c].st = "running"
    /\ cl[HandlerGoroutine].pc = "off"
    /\ nProduce < MaxProduce
    /\ chans' = [chans EXCEPT ![c].st = "calling"]
    /\ cl' = [cl EXCEPT ![HandlerGoroutine].pc = "idle"]
    /\ UNCHANGED <<disc, i, handlers, actor, router, alive, broker, pubLog, idLog,
                   overlap, respLog, dropLog, nProduce>>

\* The handler function's calls have returned and it receives from its
\* channel again.
handlerCallEnd(c) ==
    /\ alive
    /\ chans[c].st = "calling"
    /\ cl[HandlerGoroutine].pc \in {"idle", "have"}
    /\ chans' = [chans EXCEPT ![c].st = "running"]
    /\ cl' = [cl EXCEPT ![HandlerGoroutine].pc = "off", ![HandlerGoroutine].m = <<>>]
    /\ UNCHANGED <<disc, i, handlers, actor, router, alive, broker, pubLog, idLog,
                   overlap, respLog, dropLog, nProduce>>

\* The ids of the messages this service has consumed from the responder: the
\* one its first NewMessage made.
ConsumedIDs == {Itoa(1)}

\* Goroutine g builds a message with NewResponse on a message the responder
\* made with NewMessage and that this service has consumed.
newResponseTo(g, id) ==
    /\ alive
    /\ cl[g].pc \in {"idle", "have"}
    /\ nProduce < MaxProduce
    /\ \E p \in Payloads :
         cl' = [cl EXCEPT ![g].pc = "have",
                          ![g].m = NewResponse(Requester,
                                               NewMessage(Responder, CtRequest, p, id),
                                               CtAck, p)]
    /\ UNCHANGED <<disc, i, handlers, actor, chans, router, alive, broker, pubLog, idLog,
                   overlap, respLog, dropLog, nProduce>>

-----------------------------------------------------------------------------
(* The response router: responseHandler and Service.HandleMessage *)

responseChannel(s) ==
    SvcName(s) \o Sep \o SvcID(s) \o Sep
      \o <<"r", "e", "s", "p", "o", "n", "s", "e", "H", "a", "n", "d", "l", "e", "r">>

ResponseKey == <<getName(responseTopic(Requester)), responseChannel(Requester)>>

\* responseHandler: create the response topic and subscribe to it with one
\* handler goroutine (AddHandler).
responseHandler ==
    /\ alive
    /\ router.pc = "start"
    /\ BrokerSubscribe(ResponseKey[1], ResponseKey[2])
    /\ router' = [pc |-> "idle", msg |-> <<>>]
    /\ UNCHANGED <<disc, i, handlers, actor, chans, cl, alive, pubLog, idLog, overlap,
                   respLog, dropLog, nProduce>>

\* Mutant: deliveries overtake one another (the newest message is sent first).
HandleMessage_fromBack ==
    /\ alive
    /\ router.pc = "idle"
    /\ chanQ[ResponseKey] # <<>>
    /\ router' = [pc |-> "send",
                  msg |-> [nid |-> Last(chanQ[ResponseKey]).ID,
                           m |-> Unmarshal(Last(chanQ[ResponseKey]).Body)]]
    /\ chanQ' = [chanQ EXCEPT ![ResponseKey] = SubSeq(@, 1, Len(@) - 1)]
    /\ UNCHANGED <<disc, i, handlers, actor, chans, cl, alive, topics, topicQ, nsqSeq,
                   pubLog, idLog, overlap, respLog, dropLog, nProduce>>

\* Mutant: the message is left on the channel (requeued) after it is taken.
HandleMessage_requeue ==
    /\ alive
    /\ router.pc = "idle"
    /\ chanQ[ResponseKey] # <<>>
    /\ router' = [pc |-> "send",
                  msg |-> [nid |-> Head(chanQ[ResponseKey]).ID,
                           m |-> Unmarshal(Head(chanQ[ResponseKey]).Body)]]
    /\ UNCHANGED <<disc, i, handlers, actor, chans, cl, alive, broker,
                   pubLog, idLog, overlap, respLog, dropLog, nProduce>>

\* HandleMessage up to `s.callHandlerChan <- out`: the handler goroutine takes
\* the next message of the channel, decodes it and blocks on the send.
HandleMessage ==
    /\ alive
    /\ router.pc = "idle"
    /\ chanQ[ResponseKey] # <<>>
    /\ router' = [pc |-> "send",
                  msg |-> [nid |-> Head(chanQ[ResponseKey]).ID,
                           m |-> Unmarshal(Head(chanQ[ResponseKey]).Body)]]
    /\ chanQ' = [chanQ EXCEPT ![ResponseKey] = Tail(@)]
    /\ UNCHANGED <<disc, i, handlers, actor, chans, cl, alive, topics, topicQ, nsqSeq,
                   pubLog, idLog, overlap, respLog, dropLog, nProduce>>

-----------------------------------------------------------------------------
(* A remote service answering the requests it has consumed *)

RequestTopic == getName(topic(SvcName(Requester), SvcID(Requester), CtRequest))

\* The responder's handler: NewResponse on a consumed request, then Emit.
respond(n, ct, p) ==
    /\ Len(respLog) < MaxRespond
    /\ RequestTopic \in DOMAIN topicQ
    /\ n \in 1..Len(topicQ[RequestTopic])
    /\ LET req == Unmarshal(topicQ[RequestTopic][n].Body)
           resp == NewResponse(Responder, req, ct, p)
       IN  /\ respLog' = Append(respLog, [req |-> req, resp |-> resp,
                                          before |-> i[Responder]])
           /\ BrokerPublish(getName(resp.Topic), Marshal(resp))
    /\ UNCHANGED <<disc, i, handlers, actor, chans, cl, router, alive, pubLog, idLog,
                   overlap, dropLog, nProduce>>

-----------------------------------------------------------------------------
(* Discovery: Consume, newConsumer, watchForContentType, Announce *)

CtBees == <<"b", "e", "e", "s">>

\* The Consume calls made in the colony, as (service, content type), and the
\* services that produce.
ConsumeCalls == {<<"alice", CtBees>>, <<"carol", CtBees>>}
Producers == {"bob"}
ProducedTypes == {CtBees}

\* A content type that ends with CtBees and holds the separator, the Consume
\* calls made with it or by dave, and every Consume call and content type.
CtXBees == <<"x", "-">> \o CtBees
WatchCalls == {<<"alice", CtXBees>>, <<"dave", CtBees>>}
AllCalls == ConsumeCalls \cup WatchCalls
AllTypes == {CtBees, CtXBees}

\* `channel := s.Name + "-" + s.ID` of newConsumer and of the watcher's
\* per-topic consumers.
consumerChannel(s) == SvcName(s) \o Sep \o SvcID(s)

\* Mutant: the watcher's channel is named after the content type alone.
watchChannel_typeOnly(s, contentType) == contentType

\* `channel := s.Name + "-" + s.ID + "-" + contentType` of watchForContentType.
watchChannel(s, contentType) == SvcName(s) \o Sep \o SvcID(s) \o Sep \o contentType

\* lookupTopics: the topics of the registry whose name ends with contentType.
lookupTopics(contentType) == {t \in topics : HasSuffix(t, contentType)}

\* The Message Announce publishes: no payload, no id, no response topic.
Announcement(s, contentType) ==
    [ Topic         |-> topic(SvcName(s), SvcID(s), contentType),
      FromName      |-> SvcName(s),
      Payload       |-> <<>>,
      ResponseTopic |-> topic(<<>>, <<>>, <<>>),
      MessageID     |-> <<>>,
      ContentType   |-> contentType ]

ConsumeIdle ==
    [pc |-> "idle", todo |-> {}, watch |-> "off", seen |-> <<>>, emptyAtCall |-> FALSE,
     err |-> Nil, heard |-> <<>>]

\* What a Handler can return.
Errors == {Nil, "error"}

\* An nsq.Consumer on (topic, channel) whose handler is a queueConsumer that
\* sends on channel `to` of Consume call k: its inbound or its announcements.
\* `via` tells where it was made: newConsumer's loop ("snapshot") or
\* watchForContentType ("watch").
NewSub(t, ch, to, k, via) ==
    [topic |-> t, channel |-> ch, to |-> to, k |-> k, via |-> via, msg |-> <<>>]

\* Consume and newConsumer up to and including lookupTopics: the snapshot of
\* the topic registry.
newConsumerLookup(k) ==
    /\ cons[k].pc = "idle"
    /\ cons' = [cons EXCEPT ![k].pc = "connect",
                            ![k].todo = lookupTopics(k[2]),
                            ![k].emptyAtCall = (lookupTopics(k[2]) = {})]
    /\ UNCHANGED <<reqs, i, broker, subs, prod, emitLog>>

\* One turn of `for _, topic := range topicsToConsume`: a consumer on the
\* topic, on the service's channel, feeding inbound.
newConsumerConnect(k, t) ==
    /\ cons[k].pc = "connect"
    /\ t \in cons[k].todo
    /\ BrokerSubscribe(t, consumerChannel(k[1]))
    /\ subs' = Append(subs, NewSub(t, consumerChannel(k[1]), "inbound", k, "snapshot"))
    /\ cons' = [cons EXCEPT ![k].todo = @ \ {t}]
    /\ UNCHANGED <<reqs, i, prod, emitLog>>

\* The end of newConsumer: `go s.watchForContentType(...)`, and Consume calls
\* the handler on the consumer's channel.
newConsumerReturn(k) ==
    /\ cons[k].pc = "connect"
    /\ cons[k].todo = {}
    /\ cons' = [cons EXCEPT ![k].pc = "handling", ![k].watch = "start"]
    /\ UNCHANGED <<reqs, i, broker, subs, prod, emitLog>>

\* watchForContentType up to its loop: create colony-announce and subscribe
\* to it on the watcher's own channel, feeding announcements.
watchConnect(k) ==
    /\ cons[k].watch = "start"
    /\ BrokerSubscribe(AnnounceTopic, watchChannel(k[1], k[2]))
    /\ subs' = Append(subs, NewSub(AnnounceTopic, watchChannel(k[1], k[2]),
                                   "announcements", k, "watch"))
    /\ cons' = [cons EXCEPT ![k].watch = "listen"]
    /\ UNCHANGED <<reqs, i, prod, emitLog>>

\* queueConsumer.HandleMessage up to `c.C <- out`: the consumer's handler
\* goroutine takes the next message of its channel, decodes it and blocks on
\* the send.
queueHandleMessage(n) ==
    /\ subs[n].msg = <<>>
    /\ chanQ[<<subs[n].topic, subs[n].channel>>] # <<>>
    /\ LET q == chanQ[<<subs[n].topic, subs[n].channel>>]
       IN  /\ subs' = [subs EXCEPT ![n].msg = [topic |-> subs[n].topic,
                                               via |-> subs[n].via,
                                               nid |-> Head(q).ID,
                                               m |-> Unmarshal(Head(q).Body)]]
           /\ chanQ' = [chanQ EXCEPT ![<<subs[n].topic, subs[n].channel>>] = Tail(q)]
    /\ UNCHANGED <<reqs, i, topics, topicQ, nsqSeq, cons, prod, emitLog>>

\* The Consume handler receives from the consumer's channel what consumer n
\* is sending.
consumeRecv(k, n) ==
    /\ cons[k].pc = "handling"
    /\ subs[n].to = "inbound"
    /\ subs[n].k = k
    /\ subs[n].msg # <<>>
    /\ cons' = [cons EXCEPT ![k].seen = Append(@, subs[n].msg)]
    /\ subs' = [subs EXCEPT ![n].msg = <<>>]
    /\ UNCHANGED <<reqs, i, broker, prod, emitLog>>

\* The end of Consume: `h(consumer.C)` returns err, which Consume discards,
\* and Consume returns nil.  The nsq consumers and the watcher that
\* newConsumer started are not stopped.
consumeReturn(k, err) ==
    /\ cons[k].pc = "handling"
    /\ cons' = [cons EXCEPT ![k].pc = "returned", ![k].err = err]
    /\ UNCHANGED <<reqs, i, broker, subs, prod, emitLog>>

\* Mutant: the consumer started for an announced topic feeds the watcher's
\* announcements channel instead of inbound.
watchRecv_feedsAnnouncements(k, n) ==
    /\ cons[k].watch = "listen"
    /\ subs[n].to = "announcements"
    /\ subs[n].k = k
    /\ subs[n].msg # <<>>
    /\ IF subs[n].msg.m.ContentType # k[2]
         THEN /\ subs' = [subs EXCEPT ![n].msg = <<>>]
              /\ UNCHANGED broker
         ELSE /\ BrokerSubscribe(getName(subs[n].msg.m.Topic), consumerChannel(k[1]))
              /\ subs' = Append([subs EXCEPT ![n].msg = <<>>],
                                NewSub(getName(subs[n].msg.m.Topic),
                                       consumerChannel(k[1]), "announcements", k, "watch"))
    /\ cons' = [cons EXCEPT ![k].heard = Append(@, subs[n].msg)]
    /\ UNCHANGED <<reqs, i, prod, emitLog>>

\* Mutant: the watcher subscribes to every announced topic, whatever its
\* content type.
watchRecv_noFilter(k, n) ==
    /\ cons[k].watch = "listen"
    /\ subs[n].to = "announcements"
    /\ subs[n].k = k
    /\ subs[n].msg # <<>>
    /\ BrokerSubscribe(getName(subs[n].msg.m.Topic), consumerChannel(k[1]))
    /\ subs' = Append([subs EXCEPT ![n].msg = <<>>],
                      NewSub(getName(subs[n].msg.m.Topic),
                             consumerChannel(k[1]), "inbound", k, "watch"))
    /\ cons' = [cons EXCEPT ![k].heard = Append(@, subs[n].msg)]
    /\ UNCHANGED <<reqs, i, prod, emitLog>>

\* One turn of the watcher's loop: receive an announcement; if it is about
\* the watched content type, start a consumer on the announced topic, on the
\* service's channel, feeding inbound.
watchRecv(k, n) ==
    /\ cons[k].watch = "listen"
    /\ subs[n].to = "announcements"
    /\ subs[n].k = k
    /\ subs[n].msg # <<>>
    /\ IF subs[n].msg.m.ContentType # k[2]
         THEN /\ subs' = [subs EXCEPT ![n].msg = <<>>]
              /\ UNCHANGED broker
         ELSE /\ BrokerSubscribe(getName(subs[n].msg.m.Topic), consumerChannel(k[1]))
              /\ subs' = Append([subs EXCEPT ![n].msg = <<>>],
                                NewSub(getName(subs[n].msg.m.Topic),
                                       consumerChannel(k[1]), "inbound", k, "watch"))
    /\ cons' = [cons EXCEPT ![k].heard = Append(@, subs[n].msg)]
    /\ UNCHANGED <<reqs, i, prod, emitLog>>

\* A producer: its position in Announce, the Consume calls that had been made
\* when it began the Announce it has completed, and the announcements it
\* has published, each with the watchers that were listening then.
ProdIdle ==
    [pc |-> "idle", ct |-> <<>>, began |-> {}, announced |-> {}, nAnnounce |-> 0,
     annLog |-> <<>>]

\* Announce up to createTopic: the announced topic is created on the broker.
announceCreate(p, contentType) ==
    /\ prod[p].pc = "idle"
    /\ prod[p].nAnnounce < MaxAnnounce
    /\ BrokerCreateTopic(getName(topic(SvcName(p), SvcID(p), contentType)))
    /\ prod' = [prod EXCEPT ![p].pc = "publish", ![p].ct = contentType,
                            ![p].began = {k \in ConsumeCalls : cons[k].pc \notin {"idle", "off"}},
                            ![p].nAnnounce = @ + 1]
    /\ UNCHANGED <<reqs, i, cons, subs, emitLog>>

\* The end of Announce: the announcement is published on colony-announce.
announcePublish(p) ==
    /\ prod[p].pc = "publish"
    /\ BrokerPublish(AnnounceTopic, Marshal(Announcement(p, prod[p].ct)))
    /\ prod' = [prod EXCEPT ![p].pc = "idle", ![p].ct = <<>>, ![p].began = {},
                            ![p].announced = @ \cup
                               {k \in prod[p].began : k[2] = prod[p].ct},
                            ![p].annLog =
                               Append(@, [nid |-> WithCount(nsqSeq, AnnounceTopic)[AnnounceTopic] + 1,
                                          ct |-> prod[p].ct,
                                          listening |-> {k \in AllCalls :
                                                            cons[k].watch = "listen"}])]
    /\ UNCHANGED <<reqs, i, cons, subs, emitLog>>

\* A producer makes a message with NewMessage and emits it.
emitNew(p, contentType, payload) ==
    /\ prod[p].pc = "idle"
    /\ Len(emitLog) < MaxEmit
    /\ LET m == NewMessage(p, contentType, payload, Itoa(i[p] + 1))
       IN  /\ i' = [i EXCEPT ![p] = @ + 1]
           /\ BrokerPublish(getName(m.Topic), Marshal(m))
           /\ emitLog' = Append(emitLog, [topic |-> getName(m.Topic),
                                          nid |-> WithCount(nsqSeq, getName(m.Topic))[getName(m.Topic)] + 1,
                                          m |-> m,
                                          after |-> prod[p].announced])
    /\ UNCHANGED <<reqs, cons, subs, prod>>

-----------------------------------------------------------------------------
(* The request/response specification *)

\* The state NewService leaves: an empty handler map, the actor loop started,
\* the response router starting.  `callers` are the goroutines that call
\* into the requester, `consumers` the Consume calls that will be made.
InitWith(callers, consumers) ==
    /\ i = [s \in Services |-> 0]
    /\ handlers = <<>>
    /\ actor = ActorIdle
    /\ chans = <<>>
    /\ cl = [g \in Goroutines |-> [pc |-> IF g \in callers THEN "idle" ELSE "off",
                                   tmp |-> 0, seen |-> 0, m |-> <<>>,
                                   h |-> Nil, rq |-> 0]]
    /\ router = [pc |-> "start", msg |-> <<>>]
    /\ alive = TRUE
    /\ topics = {}
    /\ topicQ = <<>>
    /\ chanQ = <<>>
    /\ nsqSeq = <<>>
    /\ pubLog = <<>>
    /\ idLog = <<>>
    /\ overlap = FALSE
    /\ respLog = <<>>
    /\ dropLog = <<>>
    /\ nProduce = 0
    /\ cons = [k \in AllCalls |->
                 IF k \in consumers THEN ConsumeIdle ELSE [ConsumeIdle EXCEPT !.pc = "off"]]
    /\ subs = <<>>
    /\ prod = [p \in Producers |-> ProdIdle]
    /\ emitLog = <<>>
    /\ named = <<>>

Next ==
    \/ \E g \in Goroutines : nextIDRead(g)
    \/ \E g \in Goroutines : nextIDWrite(g)
    \/ \E g \in Goroutines : nextIDReturn(g)
    \/ \E g \in Goroutines, h \in HandlerFns \cup {Nil} : produceBegin(g, h)
    \/ \E g \in Goroutines : producePublish(g)
    \/ \E g \in Goroutines : startRecvAdd(g)
    \/ startAdd
    \/ \E c \in 1..Len(chans) : handlerReturn(c)
    \/ \E c \in 1..Len(chans) : handlerFatal(c)
    \/ \E c \in 1..Len(chans) : startRecvRemove(c)
    \/ startRemove
    \/ startRecvCall
    \/ startLookup
    \/ \E c \in 1..Len(chans) : handlerRecv(c)
    \/ responseHandler
    \/ HandleMessage
    \/ \E n \in 1..MaxProduce, p \in Payloads : respond(n, CtAck, p)

\* One goroutine issues the requests.
Init == InitWith({"g1"}, {})

Spec == Init /\ [][Next]_vars

\* The actor loop runs whenever one of its cases can proceed, and a running
\* handler receives what the actor sends it.
FairActor ==
    /\ WF_vars(\E g \in Goroutines : startRecvAdd(g))
    /\ WF_vars(startAdd)
    /\ WF_vars(\E c \in 1..Len(chans) : startRecvRemove(c))
    /\ WF_vars(startRemove)
    /\ WF_vars(startRecvCall)
    /\ WF_vars(startLookup)
    /\ WF_vars(\E c \in 1..Len(chans) : handlerRecv(c))

SpecFair == Spec /\ FairActor

-----------------------------------------------------------------------------
(* The conversation specification: handlers that call the service, and *)
(* requests made with NewResponse                                      *)

NextNested ==
    \/ Next
    \/ \E c \in 1..Len(chans) : handlerCall(c)
    \/ \E c \in 1..Len(chans) : handlerCallEnd(c)
    \/ \E g \in Goroutines, id \in ConsumedIDs : newResponseTo(g, id)

SpecNested == Init /\ [][NextNested]_vars

-----------------------------------------------------------------------------
(* The id specification: two goroutines call NewMessage on one instance *)

InitIds == InitWith(Goroutines, {})

NextIds ==
    \/ \E g \in Goroutines : nextIDRead(g)
    \/ \E g \in Goroutines : nextIDWrite(g)
    \/ \E g \in Goroutines : nextIDReturn(g)

SpecIds == InitIds /\ [][NextIds]_vars

-----------------------------------------------------------------------------
(* The discovery specification: consumers, watchers and producers *)

InitDisc == InitWith({}, ConsumeCalls)

NextDisc ==
    \/ \E k \in ConsumeCalls : newConsumerLookup(k)
    \/ \E k \in ConsumeCalls, t \in topics : newConsumerConnect(k, t)
    \/ \E k \in ConsumeCalls : newConsumerReturn(k)
    \/ \E k \in ConsumeCalls : watchConnect(k)
    \/ \E n \in 1..Len(subs) : queueHandleMessage(n)
    \/ \E k \in ConsumeCalls, n \in 1..Len(subs) : consumeRecv(k, n)
    \/ \E k \in ConsumeCalls, n \in 1..Len(subs) : watchRecv(k, n)
    \/ \E p \in Producers, ct \in ProducedTypes : announceCreate(p, ct)
    \/ \E p \in Producers : announcePublish(p)
    \/ \E p \in Producers, ct \in ProducedTypes, x \in Payloads : emitNew(p, ct, x)

SpecDisc == InitDisc /\ [][NextDisc]_vars

\* The goroutines of newConsumer, of the watcher and of the nsq consumers
\* run whenever they can, and the Consume handler keeps receiving.
FairDisc ==
    /\ WF_vars(\E k \in ConsumeCalls, t \in topics : newConsumerConnect(k, t))
    /\ WF_vars(\E k \in ConsumeCalls : newConsumerReturn(k))
    /\ WF_vars(\E k \in ConsumeCalls : watchConnect(k))
    /\ WF_vars(\E n \in 1..Len(subs) : queueHandleMessage(n))
    /\ WF_vars(\E k \in ConsumeCalls, n \in 1..Len(subs) : consumeRecv(k, n))
    /\ WF_vars(\E k \in ConsumeCalls, n \in 1..Len(subs) : watchRecv(k, n))

\* One consumer and the producers.
InitOne == InitWith({}, {<<"alice", CtBees>>})

SpecOneFair == InitOne /\ [][NextDisc]_vars /\ FairDisc

-----------------------------------------------------------------------------
(* The watcher specification: two Consume calls and the announcements *)

\* The pairs of Consume calls that run together: two services with one
\* content type, two instances whose watch channels have one name, and one
\* service with two content types.
WatchPairs ==
    {ConsumeCalls, WatchCalls, {<<"alice", CtBees>>, <<"alice", CtXBees>>}}

InitWatch == \E pair \in WatchPairs : InitWith({}, pair)

NextWatch ==
    \/ \E k \in AllCalls : newConsumerLookup(k)
    \/ \E k \in AllCalls, t \in topics : newConsumerConnect(k, t)
    \/ \E k \in AllCalls : newConsumerReturn(k)
    \/ \E k \in AllCalls : watchConnect(k)
    \/ \E n \in 1..Len(subs) : queueHandleMessage(n)
    \/ \E k \in AllCalls, n \in 1..Len(subs) : watchRecv(k, n)
    \/ \E p \in Producers, ct \in AllTypes : announceCreate(p, ct)
    \/ \E p \in Producers : announcePublish(p)

SpecWatch == InitWatch /\ [][NextWatch]_vars

-----------------------------------------------------------------------------
(* The content-type specification: one Consume call, producers of two *)
(* content types of which one ends with the other                      *)

NextTypes ==
    \/ \E k \in AllCalls : newConsumerLookup(k)
    \/ \E k \in AllCalls, t \in topics : newConsumerConnect(k, t)
    \/ \E k \in AllCalls : newConsumerReturn(k)
    \/ \E k \in AllCalls : watchConnect(k)
    \/ \E n \in 1..Len(subs) : queueHandleMessage(n)
    \/ \E k \in AllCalls, n \in 1..Len(subs) : consumeRecv(k, n)
    \/ \E k \in AllCalls, n \in 1..Len(subs) : watchRecv(k, n)
    \/ \E p \in Producers, ct \in AllTypes : announceCreate(p, ct)
    \/ \E p \in Producers : announcePublish(p)
    \/ \E p \in Producers, ct \in AllTypes, x \in Payloads : emitNew(p, ct, x)

SpecTypes == InitOne /\ [][NextTypes]_vars

-----------------------------------------------------------------------------
(* The naming specification: getName on pairs of topics *)

InitName == InitWith({}, {})

NextName == nameTopics

SpecName == InitName /\ [][NextName]_vars

-----------------------------------------------------------------------------
(* The Consume specification: one Consume call whose handler may return *)

NextReturn ==
    \/ NextDisc
    \/ \E k \in ConsumeCalls, err \in Errors : consumeReturn(k, err)

SpecReturn == InitOne /\ [][NextReturn]_vars

-----------------------------------------------------------------------------
(* Claims about the request/response exchange *)

\* The handlers that have been started for id.
HandlersOf(id) == {c \in 1..Len(chans) : chans[c].id = id}

\* The actor is looking up a message whose id belongs only to handlers that
\* have returned.
LookupAfterReturn ==
    /\ alive
    /\ actor.pc = "call"
    /\ HandlersOf(actor.msg.m.MessageID) # {}
    /\ \A c \in HandlersOf(actor.msg.m.MessageID) : chans[c].st \in {"returned", "done"}

\* C1: once the handler registered for an id has returned, a message bearing
\* that id that reaches the dispatch path is dropped: the actor discards it,
\* hands it to no handler and is back at its select, ready for the next
\* register, deregister or dispatch.
C1_LateMessageDropped ==
    [][(LookupAfterReturn /\ actor' # actor /\ alive')
         => (actor'.pc = "select" /\ chans' = chans /\ Len(dropLog') = Len(dropLog) + 1)]_vars

\* A produce call with a Handler takes its publish step.
PublishesRequest(g) ==
    /\ cl[g].pc = "publish"
    /\ cl'[g].pc = "have"
    /\ cl[g].h # Nil

\* The actor discards a message.
Discards == Len(dropLog') = Len(dropLog) + 1

\* C2 as stated: the registration is stored in the handler map before the
\* message is published, and no response is discarded while a handler of its
\* id is still running.
C2_StoredBeforePublish ==
    [][/\ \A g \in Goroutines : PublishesRequest(g) => Stored(cl[g].rq)
       /\ Discards => \A c \in HandlersOf(Last(dropLog').id) : chans[c].st # "running"]_vars

\* C2, amended: the registration has been received by the actor before the
\* message is published (the actor stores it before it takes any other
\* operation), and no response is discarded while the handler of its id is
\* running, provided no other Request registered the same id.
C2_HandedBeforePublish ==
    [][/\ \A g \in Goroutines : PublishesRequest(g) => Handed(cl[g].rq)
       /\ Discards => ~Last(dropLog').live]_vars

\* A response reached a handler that is still running.
C2_Witness ==
    \E c \in 1..Len(chans) : chans[c].st = "running" /\ Len(chans[c].got) > 0

\* C3: every message handed to the channel of the handler registered under an
\* id bears that id, both while the actor is sending it and once received.
C3_OnlyOwnID ==
    /\ actor.pc = "send" => actor.msg.m.MessageID = chans[actor.c].id
    /\ \A c \in 1..Len(chans) :
         \A k \in 1..Len(chans[c].got) : chans[c].got[k].m.MessageID = chans[c].id

\* Two handlers under different ids have each received a message.
C3_Witness ==
    \E c, d \in 1..Len(chans) :
        /\ chans[c].id # chans[d].id
        /\ Len(chans[c].got) > 0
        /\ Len(chans[d].got) > 0

\* C4: a handler receives the responses of its id in the order in which the
\* broker delivered them on the response topic.
C4_PublishOrder ==
    \A c \in 1..Len(chans) :
        \A j, k \in 1..Len(chans[c].got) :
            j < k => chans[c].got[j].nid < chans[c].got[k].nid

\* A handler has received two responses.
C4_Witness ==
    \E c \in 1..Len(chans) : Len(chans[c].got) >= 2

\* Where the response numbered n by the broker is: the places it occupies
\* between its publication and its receipt or discard.
RECURSIVE CountIn(_, _)
CountIn(q, n) ==
    IF q = <<>> THEN 0
    ELSE (IF Head(q).nid = n THEN 1 ELSE 0) + CountIn(Tail(q), n)

RECURSIVE SumGot(_, _)
SumGot(c, n) == IF c = 0 THEN 0 ELSE CountIn(chans[c].got, n) + SumGot(c - 1, n)

ResponseTopicName == ResponseKey[1]

Queued(n) ==
    LET held == IF ResponseTopicName \in DOMAIN topicQ THEN topicQ[ResponseTopicName] ELSE <<>>
        inCh == IF ResponseKey \in DOMAIN chanQ THEN chanQ[ResponseKey] ELSE <<>>
    IN  Cardinality({k \in 1..Len(held) : held[k].ID = n})
          + Cardinality({k \in 1..Len(inCh) : inCh[k].ID = n})

InFlight(n) ==
    (IF router.pc = "send" /\ router.msg.nid = n THEN 1 ELSE 0)
      + (IF actor.pc \in {"call", "send"} /\ actor.msg.nid = n THEN 1 ELSE 0)

NumResponses ==
    IF ResponseTopicName \in DOMAIN nsqSeq THEN nsqSeq[ResponseTopicName] ELSE 0

LookupMiss ==
    /\ alive
    /\ actor.pc = "call"
    /\ actor.msg.m.MessageID \notin DOMAIN handlers

\* C6: dispatching a message whose id is not in the handler map discards it:
\* the map and every handler are left as they were, the process lives, and the
\* actor is back at its select.
C6_MissIsNoOp ==
    [][(LookupMiss /\ actor' # actor /\ alive')
         => /\ handlers' = handlers
            /\ chans' = chans
            /\ actor' = ActorIdle
            /\ dropLog' = Append(dropLog, [nid |-> actor.msg.nid,
                                           id |-> actor.msg.m.MessageID,
                                           live |-> FALSE])]_vars

\* After a discard the actor served a later response.
C6_Witness ==
    /\ alive
    /\ \E k \in 1..Len(dropLog) :
         \E c \in 1..Len(chans) :
             \E j \in 1..Len(chans[c].got) : chans[c].got[j].nid > dropLog[k].nid

\* C7: a response carries the id of the message it answers, is addressed to
\* that message's ResponseTopic, and takes no id from the responder's counter.
C7_ResponseKeepsID ==
    \A k \in 1..Len(respLog) :
        /\ respLog[k].resp.MessageID = respLog[k].req.MessageID
        /\ respLog[k].resp.Topic = respLog[k].req.ResponseTopic
        /\ i[Responder] = respLog[k].before

\* Responses to two requests with different ids have been built.
C7_Witness ==
    \E j, k \in 1..Len(respLog) : respLog[j].req.MessageID # respLog[k].req.MessageID

\* The ids returned so far are strictly increasing in real time and pairwise
\* distinct.
IdsIncrease ==
    /\ \A k \in 1..Len(idLog) :
         \A j \in 1..idLog[k].seen : Atoi(idLog[j].id) < Atoi(idLog[k].id)
    /\ \A j, k \in 1..Len(idLog) : j # k => idLog[j].id # idLog[k].id

\* C8 as stated: the ids given by NewMessage are strictly increasing and
\* distinct, however the calls of different goroutines interleave.
C8_IdsIncreaseAlways == IdsIncrease

\* C8, amended: the ids given by NewMessage are strictly increasing and
\* distinct as long as no two NewMessage calls on the instance overlap.
C8_IdsIncreaseSequential == ~overlap => IdsIncrease

\* Both goroutines have made calls, never at once.
C8_Witness ==
    /\ ~overlap
    /\ \E j, k \in 1..Len(idLog) : idLog[j].g # idLog[k].g
    /\ Len(idLog) >= 3

-----------------------------------------------------------------------------
(* Claims about discovery *)

\* The handler of Consume call k has received emitted message e.
Observed(e, k) ==
    \E j \in 1..Len(cons[k].seen) :
        cons[k].seen[j].topic = e.topic /\ cons[k].seen[j].nid = e.nid

\* Emitted message e can still reach the handler of Consume call k: the topic
\* holds it for its first channel, or it is queued on the service's channel of
\* the topic, or one of k's consumers is sending it.
Deliverable(e, k) ==
    \/ \E j \in 1..Len(topicQ[e.topic]) : topicQ[e.topic][j].ID = e.nid
    \/ /\ <<e.topic, consumerChannel(k[1])>> \in DOMAIN chanQ
       /\ \E j \in 1..Len(chanQ[<<e.topic, consumerChannel(k[1])>>]) :
              chanQ[<<e.topic, consumerChannel(k[1])>>][j].ID = e.nid
    \/ \E n \in 1..Len(subs) :
          /\ subs[n].to = "inbound"
          /\ subs[n].k = k
          /\ subs[n].msg # <<>>
          /\ subs[n].msg.topic = e.topic
          /\ subs[n].msg.nid = e.nid

\* Consume call k was made while no topic of its content type existed, a
\* producer then called Announce for that type, and after Announce returned
\* emitted e of that type.
DiscoveryCase(e, k) ==
    /\ k \in e.after
    /\ cons[k].emptyAtCall
    /\ e.m.ContentType = k[2]

\* C9: eventual discovery.  A message emitted after the producer's Announce,
\* itself after the Consume call, is never lost to that consumer: at every
\* moment its handler has received it or the message is still on its way to
\* it.
C9_EventualDiscovery ==
    \A k \in ConsumeCalls :
        \A x \in 1..Len(emitLog) :
            DiscoveryCase(emitLog[x], k) =>
                Observed(emitLog[x], k) \/ Deliverable(emitLog[x], k)

\* Consume call k has a consumer on topic t from its snapshot and another
\* from an announcement.
DupSubscribed(k, t) ==
    /\ \E n \in 1..Len(subs) :
          subs[n].k = k /\ subs[n].to = "inbound" /\ subs[n].topic = t /\ subs[n].via = "snapshot"
    /\ \E n \in 1..Len(subs) :
          subs[n].k = k /\ subs[n].topic = t /\ subs[n].via = "watch"

\* Emitted message number x is queued on the channel of Consume call k's
\* service, or one of the consumers made for k is sending it.
OnItsWay(x, k) ==
    /\ x <= Len(emitLog)
    /\ DupSubscribed(k, emitLog[x].topic)
    /\ \/ /\ <<emitLog[x].topic, consumerChannel(k[1])>> \in DOMAIN chanQ
          /\ \E j \in 1..Len(chanQ[<<emitLog[x].topic, consumerChannel(k[1])>>]) :
                 chanQ[<<emitLog[x].topic, consumerChannel(k[1])>>][j].ID = emitLog[x].nid
       \/ \E n \in 1..Len(subs) :
             /\ subs[n].k = k
             /\ subs[n].msg # <<>>
             /\ subs[n].msg.topic = emitLog[x].topic
             /\ subs[n].msg.nid = emitLog[x].nid

\* C10: duplicate-subscription tolerance.  With a topic subscribed from the
\* snapshot and again from an announcement, every message of the topic that
\* is queued for the service or taken by one of its consumers is eventually
\* received by the Consume handler: the merged stream does not stop.
C10_DuplicateSubscription ==
    \A k \in ConsumeCalls :
        \A x \in 1..MaxEmit :
            OnItsWay(x, k) ~> (x <= Len(emitLog) /\ Observed(emitLog[x], k))

\* With both consumers in place, the handler has received one message from
\* the snapshot's consumer and one from the announcement's.
C10_Witness ==
    \E k \in ConsumeCalls :
        \E a, b \in 1..Len(cons[k].seen) :
            /\ DupSubscribed(k, cons[k].seen[a].topic)
            /\ cons[k].seen[a].topic = cons[k].seen[b].topic
            /\ cons[k].seen[a].via = "snapshot"
            /\ cons[k].seen[b].via = "watch"

-----------------------------------------------------------------------------
(* Claims about handlers that return *)

\* One of the consumers made for Consume call k takes a message from the
\* broker in this step.
TakesMessage(k) ==
    \E n \in 1..Len(subs) :
        subs[n].k = k /\ subs[n].msg = <<>> /\ subs'[n].msg # <<>>

\* C11: once the handler passed to Consume has returned, none of the
\* subscriptions made for that Consume call (from the snapshot, from an
\* announcement, or the announcement watch itself) takes a further message
\* from the broker.
C11_NoMessageAfterReturn ==
    [][\A k \in ConsumeCalls : cons[k].pc = "returned" => ~TakesMessage(k)]_vars

\* C12: handler errors are fatal to the instance.  Whenever a handler given
\* to Request or to Consume has returned a non-nil error the instance has
\* terminated, and a terminated instance registers, deregisters, dispatches
\* and delivers nothing.
C12_HandlerErrorsFatal ==
    [][/\ \A c \in 1..Len(chans') : chans'[c].st = "failed" => ~alive'
       /\ \A k \in ConsumeCalls :
              (k[1] = Requester /\ cons'[k].err # Nil) => ~alive'
       /\ ~alive => UNCHANGED <<handlers, actor, chans>>
      ]_vars

\* C14: deregistration completes.  Whenever a response handler started by
\* Request has returned, its hand-off on removeHandlerChan is eventually
\* received by the actor, which then deletes its id (unless the process has
\* ended), whatever responses arrive meanwhile.
C14_DeregisterCompletes ==
    \A c \in 1..MaxProduce :
        (c <= Len(chans) /\ chans[c].st = "returned")
            ~> (~alive \/ (c <= Len(chans) /\ chans[c].st = "done" /\ actor.pc # "remove"))

\* A register, a deregister or a dispatch is waiting to be received by the
\* actor.
WaitingOps ==
    <<{g \in Goroutines : cl[g].pc = "addSend"},
      {c \in 1..Len(chans) : chans[c].st = "returned"},
      router.pc = "send">>

\* C15: the actor serializes.  The handler map changes only in the body of
\* the actor's add or remove case, one operation at a time; and while a
\* dispatch is blocked handing a message to a handler, the map does not
\* change, the actor receives no register, deregister or dispatch, and the
\* only step that releases the actor is that handler receiving the message.
C15_ActorSerializes ==
    [][alive' =>
         /\ handlers' # handlers =>
               (actor.pc \in {"add", "remove"} /\ actor' = ActorIdle)
         /\ actor.pc = "send" =>
               /\ handlers' = handlers
               /\ \/ actor' = actor
                  \/ /\ actor' = ActorIdle
                     /\ chans'[actor.c].got = Append(chans[actor.c].got, actor.msg)
               /\ WaitingOps[1] \subseteq WaitingOps[1]'
               /\ WaitingOps[2] \subseteq WaitingOps[2]'
               /\ WaitingOps[3] => WaitingOps[3]'
      ]_vars

\* A dispatch is blocked on a running handler while a register and another
\* dispatch wait for the actor.
C15_Witness ==
    /\ actor.pc = "send"
    /\ chans[actor.c].st = "running"
    /\ WaitingOps[1] # {}
    /\ WaitingOps[3]

\* C19: a Request made from inside a response handler returns.  The system
\* never reaches a state in which the actor is blocked handing a message to
\* a handler while that handler's goroutine is blocked handing a
\* registration to the actor.
C19_NoNestedDeadlock ==
    ~ /\ actor.pc = "send"
      /\ chans[actor.c].st = "calling"
      /\ cl[HandlerGoroutine].pc = "addSend"

\* The message of produce call rq.
MsgOf(rq) ==
    IF \E g \in Goroutines : cl[g].rq = rq
      THEN cl[CHOOSE g \in Goroutines : cl[g].rq = rq].m
      ELSE pubLog[CHOOSE j \in 1..Len(pubLog) : pubLog[j].rq = rq].m

\* C20: register's precondition holds.  With messages built only by
\* NewMessage and NewResponse, whenever the actor stores a registration its
\* id is not in the handler map already, so no registration of another
\* message is overwritten.  (A second Request of the very same message is
\* not counted.)
C20_RegistersFreshID ==
    [][(alive' /\ actor.pc = "add" /\ actor' = ActorIdle) =>
          (actor.pair.id \in DOMAIN handlers =>
              MsgOf(actor.pair.rq) = MsgOf(chans[handlers[actor.pair.id]].rq))
      ]_vars

-----------------------------------------------------------------------------
(* Claims about watchers *)

\* The (service name, service id, content type) of Consume call k.
CallTopic(k) == topic(SvcName(k[1]), SvcID(k[1]), k[2])

\* The watcher of Consume call k has received announcement a, or a is queued
\* on the watcher's channel of colony-announce, or the watcher's consumer is
\* sending it.
AnnouncementReaches(a, k) ==
    \/ \E j \in 1..Len(cons[k].heard) : cons[k].heard[j].nid = a.nid
    \/ /\ <<AnnounceTopic, watchChannel(k[1], k[2])>> \in DOMAIN chanQ
       /\ \E j \in 1..Len(chanQ[<<AnnounceTopic, watchChannel(k[1], k[2])>>]) :
              chanQ[<<AnnounceTopic, watchChannel(k[1], k[2])>>][j].ID = a.nid
    \/ \E n \in 1..Len(subs) :
          /\ subs[n].k = k
          /\ subs[n].to = "announcements"
          /\ subs[n].msg # <<>>
          /\ subs[n].msg.nid = a.nid

\* C16 as stated: watchers do not compete.  For any two running watchers
\* with different (service name, service id, content type), an announcement
\* published while both listen reaches both.
C16_WatchersDoNotCompete ==
    \A p \in Producers : \A j \in 1..Len(prod[p].annLog) :
        \A k1, k2 \in prod[p].annLog[j].listening :
            CallTopic(k1) # CallTopic(k2) =>
                /\ AnnouncementReaches(prod[p].annLog[j], k1)
                /\ AnnouncementReaches(prod[p].annLog[j], k2)

\* C16, amended: the same for two watchers none of whose components holds
\* the separator.
C16_SeparatorFreeWatchers ==
    \A p \in Producers : \A j \in 1..Len(prod[p].annLog) :
        \A k1, k2 \in prod[p].annLog[j].listening :
            (/\ CallTopic(k1) # CallTopic(k2)
             /\ SeparatorFree(CallTopic(k1))
             /\ SeparatorFree(CallTopic(k2))) =>
                /\ AnnouncementReaches(prod[p].annLog[j], k1)
                /\ AnnouncementReaches(prod[p].annLog[j], k2)

\* Two watchers of different services, both listening when an announcement
\* was published, have both received it.
C16_Witness ==
    \E p \in Producers : \E j \in 1..Len(prod[p].annLog) :
        \E k1, k2 \in prod[p].annLog[j].listening :
            /\ k1[1] # k2[1]
            /\ SeparatorFree(CallTopic(k1)) /\ SeparatorFree(CallTopic(k2))
            /\ \E x \in 1..Len(cons[k1].heard) :
                   cons[k1].heard[x].nid = prod[p].annLog[j].nid
            /\ \E x \in 1..Len(cons[k2].heard) :
                   cons[k2].heard[x].nid = prod[p].annLog[j].nid

\* The subscriptions, without the message each is sending.
Subscriptions ==
    [n \in 1..Len(subs) |-> [subs[n] EXCEPT !.msg = <<>>]]

\* C17: a watcher for content type ct opens one new subscription, feeding
\* the same consumer stream, for every announcement it receives whose
\* ContentType equals ct, on the announced topic; for an announcement of any
\* other ContentType it opens none and the subscriptions stay as they are.
C17_SubscribesOnMatchOnly ==
    [][\A k \in AllCalls :
          Len(cons'[k].heard) = Len(cons[k].heard) + 1 =>
              IF Last(cons'[k].heard).m.ContentType = k[2]
                THEN Subscriptions' =
                        Append(Subscriptions,
                               NewSub(getName(Last(cons'[k].heard).m.Topic),
                                      consumerChannel(k[1]), "inbound", k, "watch"))
                ELSE /\ Subscriptions' = Subscriptions
                     /\ DOMAIN chanQ' = DOMAIN chanQ
      ]_vars

\* One announcement has been received by two watchers of one service: the one
\* watching its content type has opened a subscription for it and the one
\* watching another content type has opened none.
C17_Witness ==
    \E k1, k2 \in AllCalls :
        /\ k1[1] = k2[1]
        /\ Len(cons[k1].heard) = 1 /\ cons[k1].heard[1].m.ContentType = k1[2]
        /\ Len(cons[k2].heard) = 1 /\ cons[k2].heard[1].m.ContentType # k2[2]
        /\ \E n \in 1..Len(subs) :
               subs[n].k = k1 /\ subs[n].via = "watch" /\ subs[n].to = "inbound"
        /\ \A n \in 1..Len(subs) :
               subs[n].k = k2 => subs[n].to = "announcements"

\* C18: every message the handler of Consume(contentType, h) receives on its
\* stream has ContentType equal to contentType, whatever topics the broker
\* held when the snapshot was taken.
C18_StreamHasContentType ==
    \A k \in AllCalls :
        \A j \in 1..Len(cons[k].seen) : cons[k].seen[j].m.ContentType = k[2]

-----------------------------------------------------------------------------
(* Claims about names *)

\* C13: topic naming is deterministic and injective on separator-free
\* components.  For two topics without the separator in any component,
\* getName returns equal names exactly when the topics are equal.
C13_NameInjective ==
    (named # <<>> /\ SeparatorFree(named.a) /\ SeparatorFree(named.b)) =>
        ((named.a = named.b) <=> (named.na = named.nb))

\* Two different separator-free topics have been named, one of them with an
\* empty component.
C13_Witness ==
    /\ named # <<>>
    /\ SeparatorFree(named.a) /\ SeparatorFree(named.b)
    /\ named.a # named.b
    /\ named.a.ServiceID = <<>>
    /\ named.na # named.nb

====
